---------------------------- MODULE Spec2Model ----------------------------
(***************************************************************************)
(* The trivia API of backend/flaskr/__init__.py: the request handlers, the *)
(* pagination helper, and the storage they read and write.                 *)
(*                                                                         *)
(* Spec      handles one request after another, each handler as one step.  *)
(* SpecPage  applies pagination_helper to arbitrary item sequences.        *)
(* SpecConc  runs handlers concurrently, one step per storage call.        *)
(***************************************************************************)
EXTENDS Integers, Sequences, FiniteSets, TLC

VARIABLES
    questions,   \* the rows of the questions table (a set of Question rows)
    nextId,      \* the id the storage gives the next inserted row
    req,         \* the last request handled
    resp,        \* the response to it
    before,      \* the rows of the questions table when that request arrived
    deleted,     \* the ids a DELETE has answered with success
    pgItems,     \* SpecPage: the selection handed to pagination_helper
    pgPage,      \* SpecPage: the page argument
    pgSize,      \* SpecPage: the questions_per_page argument
    pgOut,       \* SpecPage: the slice returned
    pc,          \* SpecConc: each request's position in its handler
    creq,        \* SpecConc: each thread's request
    cresp,       \* SpecConc: each thread's response
    found,       \* SpecConc: the row a DELETE handler read, <<>> when none
    store0       \* SpecConc: the rows of the questions table at the start

vars == <<questions, nextId, req, resp, before, deleted, pgItems, pgPage, pgSize,
          pgOut, pc, creq, cresp, found, store0>>

seqVars == <<questions, nextId, req, resp, before, deleted>>
pageVars == <<pgItems, pgPage, pgSize, pgOut>>
concVars == <<pc, creq, cresp, found, store0>>

----------------------------------------------------------------------------
(* Bounds *)

\* The storage hands out ids 1..MaxId; no question is created after that.
MaxId == 3
\* SpecPage: the longest selection paginated.
MaxItems == 4
\* SpecConc: the ids the initial table may hold.
MaxSeed == 2
\* SpecConc: the number of requests handled concurrently.
NThreads == 2

QUESTIONS_PER_PAGE == 10

----------------------------------------------------------------------------
(* JSON values of request bodies and query strings *)

JNone == [t |-> "none"]
JStr(s) == [t |-> "str", s |-> s]
JInt(n) == [t |-> "int", n |-> n]
JBool(b) == [t |-> "bool", b |-> b]

\* Python truthiness: `not v` is TRUE exactly when Truthy(v) is FALSE.
Truthy(v) ==
    CASE v.t = "none" -> FALSE
      [] v.t = "str"  -> v.s # <<>>
      [] v.t = "int"  -> v.n # 0
      [] v.t = "bool" -> v.b

\* Python `v != 0`: False == 0 and True == 1; a str or None never equals 0.
PyNeZero(v) ==
    CASE v.t = "none" -> TRUE
      [] v.t = "str"  -> TRUE
      [] v.t = "int"  -> v.n # 0
      [] v.t = "bool" -> v.b

\* A query-string argument: absent, not a number, or an integer.
ArgAbsent == [k |-> "absent"]
ArgJunk == [k |-> "junk"]
ArgInt(n) == [k |-> "int", n |-> n]

\* request.args.get(name, default, type=int): the default when the argument
\* is absent or int() raises on it.
ArgsGetInt(raw, default) == IF raw.k = "int" THEN raw.n ELSE default

Min(a, b) == IF a < b THEN a ELSE b
Max(a, b) == IF a > b THEN a ELSE b

\* Python's s[start:end] on a list, negative indices counted from the end.
PySlice(s, start, end) ==
    LET n == Len(s)
        norm(i) == IF i < 0 THEN Max(i + n, 0) ELSE Min(i, n)
        lo == norm(start)
        hi == norm(end)
    IN  IF hi > lo THEN [i \in 1..(hi - lo) |-> s[lo + i]] ELSE <<>>

----------------------------------------------------------------------------
(* Storage: the categories and questions tables *)

\* The categories table: read-only to the handlers.
Categories == (1 :> "Science") @@ (2 :> "Art")

CategoryIds == DOMAIN Categories

\* Question.format(): the row as the dictionary put into responses.
format(q) ==
    [id |-> q.id, question |-> q.question, answer |-> q.answer,
     category |-> q.category, difficulty |-> q.difficulty]

Ids(rows) == {q.id : q \in rows}

\* The orders in which a query with no order_by may return a set of rows.
RowOrders(rows) ==
    {s \in [1..Cardinality(rows) -> rows] :
        \A i, j \in 1..Cardinality(rows) : i # j => s[i] # s[j]}

\* Query.order_by(Question.id).all()
RECURSIVE OrderById(_)
OrderById(rows) ==
    IF rows = {} THEN <<>>
    ELSE LET first == CHOOSE q \in rows : \A r \in rows : q.id <= r.id
         IN  <<first>> \o OrderById(rows \ {first})

\* [question.format() for question in selection]
RECURSIVE FormatAll(_)
FormatAll(selection) ==
    IF selection = <<>> THEN <<>>
    ELSE <<format(Head(selection))>> \o FormatAll(Tail(selection))

----------------------------------------------------------------------------
(* The pagination helper *)

\* The mutant of pagination_helper: the window starts one page too late.
pagination_helper_late(args, selection) ==
    LET page == ArgsGetInt(args.page, 1)
        questions_per_page ==
            ArgsGetInt(args.questions_per_page, QUESTIONS_PER_PAGE)
        start == page * questions_per_page
        end == start + questions_per_page
    IN  PySlice(FormatAll(selection), start, end)

pagination_helper(args, selection) ==
    LET page == ArgsGetInt(args.page, 1)
        questions_per_page ==
            ArgsGetInt(args.questions_per_page, QUESTIONS_PER_PAGE)
        start == (page - 1) * questions_per_page
        end == start + questions_per_page
        formatted_questions == FormatAll(selection)
    IN  PySlice(formatted_questions, start, end)

----------------------------------------------------------------------------
(* Error handlers *)

bad_request ==
    [status |-> 400, success |-> FALSE, message |-> "bad request",
     error |-> "400"]

not_found ==
    [status |-> 404, success |-> FALSE, message |-> "resource not found",
     error |-> "404"]

unprocessable ==
    [status |-> 422, success |-> FALSE, message |-> "unprocessable",
     error |-> "422"]

internal_server_error ==
    [status |-> 500, success |-> FALSE, message |-> "internal server error",
     error |-> "500"]

\* abort(code), answered by the error handler registered for the code.
abort(code) ==
    CASE code = 400 -> bad_request
      [] code = 404 -> not_found
      [] code = 422 -> unprocessable
      [] OTHER      -> internal_server_error

----------------------------------------------------------------------------
(* Storage queries and writes *)

\* The lower-case form of a character (the alphabet of the model's texts).
Lower(c) ==
    CASE c = "A" -> "a"
      [] c = "B" -> "b"
      [] OTHER   -> c

\* SQL's  text ILIKE pattern : in the pattern % stands for any run of
\* characters and _ for any one character; every other character stands for
\* itself in either case.  (The escape character \ is not in the alphabet.)
RECURSIVE ilike(_, _)
ilike(text, pattern) ==
    IF pattern = <<>> THEN text = <<>>
    ELSE IF Head(pattern) = "%"
         THEN \/ ilike(text, Tail(pattern))
              \/ text # <<>> /\ ilike(Tail(text), pattern)
    ELSE IF Head(pattern) = "_"
         THEN text # <<>> /\ ilike(Tail(text), Tail(pattern))
    ELSE /\ text # <<>>
         /\ Lower(Head(text)) = Lower(Head(pattern))
         /\ ilike(Tail(text), Tail(pattern))

\* Question(...).insert(): the storage gives the new row the next unused id.
insert(rows, id, fields) ==
    rows \cup {[id |-> id, question |-> fields.question,
                answer |-> fields.answer, category |-> fields.category,
                difficulty |-> fields.difficulty]}

\* question.delete()
delete(rows, q) == rows \ {q}

\* Query.filter(Question.id == question_id).one_or_none(): <<>> is None.
one_or_none(rows) == IF rows = {} THEN <<>> ELSE <<CHOOSE q \in rows : TRUE>>

\* body.get(key, None) on the JSON object of a request.
BodyGet(body, key) == IF key \in DOMAIN body THEN body[key] ELSE JNone

----------------------------------------------------------------------------
(* The handlers.  Each gives the outcomes the handler may produce for a    *)
(* request: the table after it, the next id, and the response.             *)

Outcome(rows, nid, response) ==
    [questions |-> rows, nextId |-> nid, resp |-> response]

\* GET /categories
get_categories ==
    LET formatted_categories == Categories
    IN  [status |-> 200, success |-> TRUE,
         categories |-> formatted_categories,
         total |-> Cardinality(DOMAIN formatted_categories)]

\* GET /questions
get_questions(rows, args) ==
    LET qs == OrderById(rows)
        current_questions == pagination_helper(args, qs)
    IN  IF Len(current_questions) = 0 THEN abort(404)
        ELSE [status |-> 200, success |-> TRUE,
              questions |-> current_questions,
              total_questions |-> Len(qs),
              current_category |-> "None",
              categories |-> Categories]

\* The except clause of delete_question: 404 for an exception whose code is
\* 404, 422 for any other.
delete_except(e) == IF e.code = 404 THEN abort(404) ELSE abort(422)

\* The mutant of delete_question: success is reported, the row is kept.
delete_question_keep(rows, question_id) ==
    LET question == one_or_none({q \in rows : q.id = question_id})
    IN  IF question = <<>>
        THEN [questions |-> rows, resp |-> delete_except([code |-> 404])]
        ELSE [questions |-> rows,
              resp |-> [status |-> 200, success |-> TRUE,
                        deleted |-> question_id]]

\* DELETE /questions/<question_id>.  abort(404) inside the try raises an
\* exception whose code is 404, which the except clause aborts with again.
delete_question(rows, question_id) ==
    LET question == one_or_none({q \in rows : q.id = question_id})
    IN  IF question = <<>>
        THEN [questions |-> rows, resp |-> delete_except([code |-> 404])]
        ELSE [questions |-> delete(rows, question[1]),
              resp |-> [status |-> 200, success |-> TRUE,
                        deleted |-> question_id]]

\* The mutant of fields_missing: the difficulty is tested with `is None`.
fields_missing_is_none(form_question, form_answer, form_category, form_difficulty) ==
    \/ ~Truthy(form_answer)
    \/ ~Truthy(form_question)
    \/ ~Truthy(form_category)
    \/ form_difficulty.t = "none"

\* not form_answer or not form_question or not form_category
\* or not form_difficulty
fields_missing(form_question, form_answer, form_category, form_difficulty) ==
    \/ ~Truthy(form_answer)
    \/ ~Truthy(form_question)
    \/ ~Truthy(form_category)
    \/ ~Truthy(form_difficulty)

\* POST /questions: a search when the body has the key searchTerm, the
\* creation of a question otherwise.
handle_questions_post(rows, nid, body, args) ==
    IF "searchTerm" \in DOMAIN body
    THEN LET search_term == body["searchTerm"]
             search_pattern == <<"%">> \o search_term.s \o <<"%">>
             matching == {q \in rows : ilike(q.question, search_pattern)}
         IN  {Outcome(rows, nid,
                      [status |-> 200, success |-> TRUE,
                       questions |-> pagination_helper(args, qs),
                       total_questions |-> Len(qs),
                       current_category |-> "None",
                       categories |-> Categories]) :
                 qs \in RowOrders(matching)}
    ELSE LET form_question == BodyGet(body, "question")
             form_answer == BodyGet(body, "answer")
             form_category == BodyGet(body, "category")
             form_difficulty == BodyGet(body, "difficulty")
         IN  IF fields_missing(form_question, form_answer, form_category,
                               form_difficulty)
             THEN {Outcome(rows, nid, abort(400))}
             ELSE {Outcome(insert(rows, nid,
                                  [question |-> form_question.s,
                                   answer |-> form_answer.s,
                                   category |-> form_category.n,
                                   difficulty |-> form_difficulty.n]),
                           nid + 1,
                           [status |-> 200, success |-> TRUE,
                            created |-> nid])}

\* The mutant of get_questions_by_category: the category is not looked up.
get_questions_by_category_unchecked(rows, category_id, args) ==
    {[status |-> 200, success |-> TRUE,
      questions |-> pagination_helper(args, qs),
      total_questions |-> Len(qs),
      current_category |->
          IF category_id \in CategoryIds THEN Categories[category_id]
          ELSE "None"] :
        qs \in RowOrders({q \in rows : q.category = category_id})}

\* GET /categories/<category_id>/questions
get_questions_by_category(rows, category_id, args) ==
    LET category ==
            one_or_none({[id |-> c, type |-> Categories[c]] :
                            c \in {c \in CategoryIds : c = category_id}})
    IN  {IF category = <<>> THEN abort(404)
         ELSE [status |-> 200, success |-> TRUE,
               questions |-> pagination_helper(args, qs),
               total_questions |-> Len(qs),
               current_category |-> category[1].type] :
            qs \in RowOrders({q \in rows : q.category = category_id})}

\* Query.filter(Question.category == v).all() for the JSON value v of a
\* quiz request: the rows of an integer category; an error of the storage
\* for a text that is no number or for a boolean, which the integer column
\* cannot be compared with.
filter_category(rows, v) ==
    IF v.t = "int"
    THEN [raised |-> FALSE, rows |-> {q \in rows : q.category = v.n}]
    ELSE [raised |-> TRUE, rows |-> {}]

\* The mutant of remaining_questions: the previous questions stay in.
remaining_questions_all(qs, previous_questions) == qs

\* [q for q in questions if q.id not in previous_questions]
remaining_questions(qs, previous_questions) ==
    {q \in qs : q.id \notin previous_questions}

\* POST /quizzes.  quiz_category is None or a JSON object; an object with no
\* key is falsy, and reading the key id of an object without it raises.
play_quiz(rows, body) ==
    LET previous_questions == body.previous_questions
        quiz_category == body.quiz_category
        filtered ==
            IF quiz_category.t = "dict" /\ DOMAIN quiz_category.d # {}
            THEN IF "id" \notin DOMAIN quiz_category.d
                 THEN [raised |-> TRUE, rows |-> {}]
                 ELSE IF PyNeZero(quiz_category.d["id"])
                      THEN filter_category(rows, quiz_category.d["id"])
                      ELSE [raised |-> FALSE, rows |-> rows]
            ELSE [raised |-> FALSE, rows |-> rows]
        remaining == remaining_questions(filtered.rows, previous_questions)
    IN  IF filtered.raised THEN {abort(422)}
        ELSE IF remaining # {}
             THEN {[status |-> 200, success |-> TRUE,
                    question |-> <<format(q)>>] : q \in remaining}
             ELSE {[status |-> 200, success |-> TRUE, question |-> <<>>]}

----------------------------------------------------------------------------
(* The requests of the model *)

\* Question texts, an answer, and search terms over the alphabet
\* a A b B _ % x.
QuestionTexts == {<<"A", "b">>, <<"b", "_">>}
AnswerText == <<"x">>
SearchTerms ==
    {<<>>, <<"a">>, <<"a", "B">>, <<"_">>, <<"%", "b">>, <<"x">>}

\* Category ids of requests: those of Categories and one that is none.
RequestCategoryIds == CategoryIds \cup {3}

PageArgs == {ArgAbsent, ArgJunk} \cup {ArgInt(n) : n \in -1..3}
SizeArgs == {ArgAbsent} \cup {ArgInt(n) : n \in -1..2}
NoArgs == [page |-> ArgAbsent, questions_per_page |-> ArgAbsent]

\* A field left out of a creation body.
Missing == [t |-> "missing"]

CreateKeys == {"question", "answer", "category", "difficulty"}

MkBody(q, a, c, d) ==
    LET full == [question |-> q, answer |-> a, category |-> c,
                 difficulty |-> d]
    IN  [k \in {k \in CreateKeys : full[k].t # "missing"} |-> full[k]]

CreateBodies ==
    {MkBody(q, a, c, d) :
        q \in {Missing, JNone, JStr(<<>>)} \cup {JStr(t) : t \in QuestionTexts},
        a \in {Missing, JStr(<<>>), JStr(AnswerText)},
        c \in {Missing} \cup {JInt(n) : n \in {0} \cup RequestCategoryIds},
        d \in {Missing, JInt(0), JInt(1)}}
    \cup {[invalidKey |-> JStr(<<"x">>)]}

QuizCategories ==
    {JNone, [t |-> "dict", d |-> <<>>],
     [t |-> "dict", d |-> [type |-> JStr(<<"x">>)]]}
    \cup {[t |-> "dict", d |-> [id |-> v]] :
            v \in {JInt(n) : n \in {0} \cup RequestCategoryIds}
                  \cup {JBool(FALSE), JBool(TRUE), JStr(<<"x">>)}}

----------------------------------------------------------------------------
(* Spec: one request after another *)

SeqInit ==
    /\ questions = {}
    /\ nextId = 1
    /\ req = [op |-> "none"]
    /\ resp = [status |-> 0]
    /\ before = {}
    /\ deleted = {}

PageIdle ==
    /\ pgItems = <<>>
    /\ pgPage = ArgAbsent
    /\ pgSize = ArgAbsent
    /\ pgOut = <<>>

ConcIdle ==
    /\ pc = <<>>
    /\ creq = <<>>
    /\ cresp = <<>>
    /\ found = <<>>
    /\ store0 = {}

\* The server takes a request when the response to the last one has left.
Idle == req.op = "none"

Handled(request, outcome) ==
    /\ req' = request
    /\ before' = questions
    /\ questions' = outcome.questions
    /\ nextId' = outcome.nextId
    /\ resp' = outcome.resp
    /\ deleted' =
          IF request.op = "delete_question" /\ outcome.resp.status = 200
          THEN deleted \cup {outcome.resp.deleted}
          ELSE deleted
    /\ UNCHANGED <<pageVars, concVars>>

GetCategories ==
    Idle /\ Handled([op |-> "get_categories"],
            Outcome(questions, nextId, get_categories))

GetQuestions ==
    Idle /\ \E page \in PageArgs, size \in SizeArgs :
        LET args == [page |-> page, questions_per_page |-> size]
        IN  Handled([op |-> "get_questions", args |-> args],
                    Outcome(questions, nextId, get_questions(questions, args)))

DeleteQuestion ==
    Idle /\ \E question_id \in 0..MaxId :
        LET out == delete_question(questions, question_id)
        IN  Handled([op |-> "delete_question", question_id |-> question_id],
                    Outcome(out.questions, nextId, out.resp))

SearchQuestions ==
    Idle /\ \E term \in SearchTerms, page \in PageArgs, size \in SizeArgs :
        LET args == [page |-> page, questions_per_page |-> size]
            body == [searchTerm |-> JStr(term)]
        IN  \E out \in handle_questions_post(questions, nextId, body, args) :
                Handled([op |-> "search", body |-> body, args |-> args], out)

CreateQuestion ==
    Idle /\ \E body \in CreateBodies :
        \E out \in handle_questions_post(questions, nextId, body, NoArgs) :
            /\ out.nextId <= MaxId + 1
            /\ Handled([op |-> "create", body |-> body], out)

GetQuestionsByCategory ==
    Idle /\ \E category_id \in RequestCategoryIds, page \in PageArgs,
       size \in SizeArgs :
        LET args == [page |-> page, questions_per_page |-> size]
        IN  \E r \in get_questions_by_category(questions, category_id, args) :
                Handled([op |-> "get_questions_by_category",
                         category_id |-> category_id, args |-> args],
                        Outcome(questions, nextId, r))

PlayQuiz ==
    Idle /\ \E previous \in SUBSET (1..MaxId), category \in QuizCategories :
        LET body == [previous_questions |-> previous,
                     quiz_category |-> category]
        IN  \E r \in play_quiz(questions, body) :
                Handled([op |-> "play_quiz", body |-> body],
                        Outcome(questions, nextId, r))

\* The response leaves the server.
Respond ==
    /\ req.op # "none"
    /\ req' = [op |-> "none"]
    /\ resp' = [status |-> 0]
    /\ before' = questions
    /\ UNCHANGED <<questions, nextId, deleted, pageVars, concVars>>

Next ==
    \/ Respond
    \/ GetCategories
    \/ GetQuestions
    \/ DeleteQuestion
    \/ SearchQuestions
    \/ CreateQuestion
    \/ GetQuestionsByCategory
    \/ PlayQuiz

Init == SeqInit /\ PageIdle /\ ConcIdle

Spec == Init /\ [][Next]_vars

----------------------------------------------------------------------------
(* Properties of Spec *)

\* The ids of the questions a response carries.
RespIds(r) ==
    (IF "questions" \in DOMAIN r
     THEN {r.questions[i].id : i \in 1..Len(r.questions)} ELSE {})
    \cup
    (IF "question" \in DOMAIN r
     THEN {r.question[i].id : i \in 1..Len(r.question)} ELSE {})

\* C1: DELETE /questions/{id} of a stored id answers 200 with
\* {success: true, deleted: id} and removes the row, and no later listing,
\* search, category or quiz response carries a question with that id; of an
\* id not stored it answers 404 with success false and leaves the table as
\* it was.
C1_DeletePermanent ==
    /\ req.op = "delete_question" =>
          IF req.question_id \in Ids(before)
          THEN /\ resp = [status |-> 200, success |-> TRUE,
                          deleted |-> req.question_id]
               /\ questions = {q \in before : q.id # req.question_id}
          ELSE /\ resp.status = 404
               /\ resp.success = FALSE
               /\ questions = before
    /\ deleted \cap Ids(questions) = {}
    /\ deleted \cap RespIds(resp) = {}

\* A listing answered with questions after a DELETE has succeeded.
C1_Witness ==
    /\ deleted # {}
    /\ req.op \in {"get_questions", "search", "get_questions_by_category",
                   "play_quiz"}
    /\ resp.status = 200
    /\ RespIds(resp) # {}

\* A field of a creation body that is missing or empty: the key is absent,
\* the value is null, or it is the empty string.
Empty(v) == v.t = "none" \/ (v.t = "str" /\ Len(v.s) = 0)

\* A field that is missing, empty or the number 0.
EmptyOrZero(v) == Empty(v) \/ (v.t = "int" /\ v.n = 0)

CreateFields(body) ==
    {BodyGet(body, "question"), BodyGet(body, "answer"),
     BodyGet(body, "category"), BodyGet(body, "difficulty")}

\* The response and the table after a creation that succeeded.
Created ==
    /\ resp.status = 200
    /\ resp.success
    /\ resp.created \notin Ids(before)
    /\ questions =
          before \cup {[id |-> resp.created,
                        question |-> req.body["question"].s,
                        answer |-> req.body["answer"].s,
                        category |-> req.body["category"].n,
                        difficulty |-> req.body["difficulty"].n]}

NotCreated ==
    /\ resp.status = 400
    /\ resp.success = FALSE
    /\ questions = before

IntegerCategory(c) ==
    c.t = "none" \/ (c.t = "dict" /\ "id" \in DOMAIN c.d /\ c.d["id"].t = "int")

\* The candidates of a quiz: every question when the category is absent or
\* has id 0, the questions of the category otherwise.
Candidates(rows, c) ==
    IF c.t = "none" \/ c.d["id"].n = 0 THEN rows
    ELSE {q \in rows : q.category = c.d["id"].n}

\* C3: POST /quizzes with a category that is absent, has id 0 or has an
\* integer id answers 200; the question is null exactly when every
\* candidate's id is in previous_questions, and otherwise it is a candidate
\* whose id is not in previous_questions.
C3_QuizSelection ==
    (req.op = "play_quiz" /\ IntegerCategory(req.body.quiz_category)) =>
        LET cand == Candidates(before, req.body.quiz_category)
            prev == req.body.previous_questions
        IN  /\ resp.status = 200
            /\ resp.success
            /\ resp.question = <<>> <=> \A q \in cand : q.id \in prev
            /\ resp.question # <<>> =>
                  \E q \in cand : /\ q.id \notin prev
                                  /\ resp.question = <<format(q)>>

\* A quiz in a category with one unseen question, one seen question and a
\* question of another category: the unseen one is returned.
C3_Witness ==
    /\ req.op = "play_quiz"
    /\ IntegerCategory(req.body.quiz_category)
    /\ req.body.quiz_category.t = "dict"
    /\ req.body.quiz_category.d["id"].n # 0
    /\ LET cand == Candidates(before, req.body.quiz_category)
           unseen == {q \in cand : q.id \notin req.body.previous_questions}
       IN  /\ Cardinality(unseen) = 1
           /\ Cardinality(cand) = 2
           /\ before # cand
           /\ resp.question = <<format(CHOOSE q \in unseen : TRUE)>>

\* The page of a list: its elements at the positions (page - 1) * size + 1
\* to page * size, as far as the list has them.
PageOf(list, page, size) ==
    LET lo == Max((page - 1) * size, 0)
        hi == Min(page * size, Len(list))
    IN  IF hi > lo THEN [i \in 1..(hi - lo) |-> list[lo + i]] ELSE <<>>

\* C4: GET /questions answers 404 with success false and the message
\* "resource not found" exactly when the requested page of the id-ordered
\* list of all stored questions is empty, and otherwise 200 with the
\* questions of that page and the number of all stored questions.
C4_ListOr404 ==
    req.op = "get_questions" =>
        LET page == ArgsGetInt(req.args.page, 1)
            size == ArgsGetInt(req.args.questions_per_page, QUESTIONS_PER_PAGE)
            wanted == PageOf(FormatAll(OrderById(before)), page, size)
        IN  IF wanted = <<>>
            THEN /\ resp.status = 404
                 /\ resp.success = FALSE
                 /\ resp.message = "resource not found"
            ELSE /\ resp.status = 200
                 /\ resp.success
                 /\ resp.questions = wanted
                 /\ resp.total_questions = Cardinality(before)

\* C5: GET /categories/{category_id}/questions answers 404 with success
\* false and the message "resource not found" when no category has that id,
\* also when questions of that category id are stored; when the category
\* exists it answers 200 with the category's type and only questions whose
\* category is category_id.
C5_CategoryFilter ==
    req.op = "get_questions_by_category" =>
        IF req.category_id \notin DOMAIN Categories
        THEN /\ resp.status = 404
             /\ resp.success = FALSE
             /\ resp.message = "resource not found"
        ELSE /\ resp.status = 200
             /\ resp.success
             /\ resp.current_category = Categories[req.category_id]
             /\ \A i \in 1..Len(resp.questions) :
                   /\ resp.questions[i].category = req.category_id
                   /\ \E q \in before : resp.questions[i] = format(q)

\* A request for a category id that no category has while a question with
\* that category id is stored.
C5_Witness ==
    /\ req.op = "get_questions_by_category"
    /\ req.category_id \notin DOMAIN Categories
    /\ \E q \in before : q.category = req.category_id
    /\ resp.status = 404

\* The term is a substring of the text, case ignored, no character of the
\* term standing for anything but itself.
ContainsIgnoringCase(text, term) ==
    \E i \in 0..(Len(text) - Len(term)) :
        \A j \in 1..Len(term) : Lower(text[i + j]) = Lower(term[j])

\* C6: a search answers 200 with success true, total_questions counts the
\* stored questions whose text holds the term as a plain substring, case
\* ignored, and with no such question the questions are [].
C6_SearchSubstring ==
    req.op = "search" =>
        LET matches ==
                {q \in before :
                    ContainsIgnoringCase(q.question, req.body["searchTerm"].s)}
        IN  /\ resp.status = 200
            /\ resp.success
            /\ resp.total_questions = Cardinality(matches)
            /\ matches = {} => resp.questions = <<>>

\* C7: POST /quizzes whose quiz_category.id is not an integer answers 422
\* with success false, and never 200 with a question drawn from all
\* categories.
C7_Malformed422 ==
    (/\ req.op = "play_quiz"
     /\ req.body.quiz_category.t = "dict"
     /\ "id" \in DOMAIN req.body.quiz_category.d
     /\ req.body.quiz_category.d["id"].t # "int") =>
        /\ resp.status = 422
        /\ resp.success = FALSE

\* C8: the questions of a search response are in ascending order of id.
C8_SearchOrdered ==
    (req.op = "search" /\ resp.status = 200) =>
        \A i, j \in 1..Len(resp.questions) :
            i < j => resp.questions[i].id < resp.questions[j].id

----------------------------------------------------------------------------
(* SpecPage: pagination_helper on arbitrary selections *)

Row(id) ==
    [id |-> id, question |-> <<"A", "b">>, answer |-> AnswerText,
     category |-> 1, difficulty |-> 1]

Selections ==
    UNION {[1..n -> {Row(1), Row(2)}] : n \in 0..MaxItems}

PageInit ==
    /\ pgItems \in Selections
    /\ pgPage \in {ArgAbsent, ArgJunk} \cup {ArgInt(n) : n \in -1..(MaxItems + 1)}
    /\ pgSize \in {ArgAbsent} \cup {ArgInt(n) : n \in -1..3}
    /\ pgOut = [done |-> FALSE]

Paginate ==
    /\ ~pgOut.done
    /\ pgOut' =
          [done |-> TRUE,
           questions |->
               pagination_helper(
                   [page |-> pgPage, questions_per_page |-> pgSize], pgItems)]
    /\ UNCHANGED <<pgItems, pgPage, pgSize, seqVars, concVars>>

NextPage == Paginate

InitPage == SeqInit /\ PageInit /\ ConcIdle

SpecPage == InitPage /\ [][NextPage]_vars

\* C9: for positive page and questions_per_page, with
\* start = (page - 1) * questions_per_page, pagination_helper returns the
\* items from position start on, at most questions_per_page of them, in
\* their order; the result is empty exactly when start >= length(items).
C9_PageSlice ==
    LET page == ArgsGetInt(pgPage, 1)
        size == ArgsGetInt(pgSize, QUESTIONS_PER_PAGE)
        start == (page - 1) * size
        n == Len(pgItems)
        k == IF start >= n THEN 0 ELSE Min(size, n - start)
    IN  (pgOut.done /\ page > 0 /\ size > 0) =>
            /\ Len(pgOut.questions) = k
            /\ \A i \in 1..k : pgOut.questions[i] = format(pgItems[start + i])
            /\ Len(pgOut.questions) <= size
            /\ pgOut.questions = <<>> <=> start >= n

\* A last page that is not full, after the first page.
C9_Witness ==
    /\ pgOut.done
    /\ pgPage = ArgInt(2)
    /\ pgSize = ArgInt(2)
    /\ Len(pgItems) = 3
    /\ pgItems[3] # pgItems[1]
    /\ pgOut.questions = <<format(pgItems[3])>>

----------------------------------------------------------------------------
(* SpecConc: requests handled concurrently, one step per storage call *)

Threads == 1..NThreads

SeedIds == 1..MaxSeed

ValidBody ==
    [question |-> JStr(<<"A", "b">>), answer |-> JStr(AnswerText),
     category |-> JInt(1), difficulty |-> JInt(1)]

ConcRequests ==
    {[op |-> "delete_question", question_id |-> id] : id \in SeedIds}
    \cup {[op |-> "create", body |-> ValidBody], [op |-> "get_questions"]}

ConcInit ==
    /\ store0 \in {{Row(id) : id \in S} : S \in SUBSET SeedIds}
    /\ questions = store0
    /\ nextId = MaxSeed + 1
    /\ creq \in [Threads -> ConcRequests]
    /\ pc = [t \in Threads |-> "start"]
    /\ cresp = [t \in Threads |-> [status |-> 0]]
    /\ found = [t \in Threads |-> <<>>]
    /\ req = [op |-> "none"]
    /\ resp = [status |-> 0]
    /\ before = {}
    /\ deleted = {}

\* delete_question up to its read: the row is looked up; with none found the
\* handler aborts with 404.
DeleteRead(t) ==
    /\ pc[t] = "start"
    /\ creq[t].op = "delete_question"
    /\ LET question ==
               one_or_none({q \in questions : q.id = creq[t].question_id})
       IN  IF question = <<>>
           THEN /\ cresp' = [cresp EXCEPT ![t] = delete_except([code |-> 404])]
                /\ pc' = [pc EXCEPT ![t] = "done"]
                /\ found' = found
           ELSE /\ found' = [found EXCEPT ![t] = question]
                /\ pc' = [pc EXCEPT ![t] = "found"]
                /\ cresp' = cresp
    /\ UNCHANGED <<questions, nextId, creq, store0, req, resp, before,
                   deleted, pageVars>>

\* delete_question from question.delete() on: the row read is deleted and
\* success is answered.  When another request has deleted the row since the
\* read, the storage deletes nothing, and either returns or raises.
DeleteWrite(t) ==
    /\ pc[t] = "found"
    /\ questions' = delete(questions, found[t][1])
    /\ \/ cresp' = [cresp EXCEPT ![t] = [status |-> 200, success |-> TRUE,
                                         deleted |-> creq[t].question_id]]
       \/ /\ found[t][1] \notin questions
          /\ cresp' = [cresp EXCEPT ![t] = delete_except([code |-> 0])]
    /\ pc' = [pc EXCEPT ![t] = "done"]
    /\ UNCHANGED <<nextId, creq, found, store0, req, resp, before, deleted,
                   pageVars>>

\* handle_questions_post creating a question: one call of the storage.
ConcCreate(t) ==
    /\ pc[t] = "start"
    /\ creq[t].op = "create"
    /\ \E out \in handle_questions_post(questions, nextId, creq[t].body, NoArgs) :
          /\ questions' = out.questions
          /\ nextId' = out.nextId
          /\ cresp' = [cresp EXCEPT ![t] = out.resp]
    /\ pc' = [pc EXCEPT ![t] = "done"]
    /\ UNCHANGED <<creq, found, store0, req, resp, before, deleted, pageVars>>

\* get_questions: one read of the questions table.
ConcList(t) ==
    /\ pc[t] = "start"
    /\ creq[t].op = "get_questions"
    /\ cresp' = [cresp EXCEPT ![t] = get_questions(questions, NoArgs)]
    /\ pc' = [pc EXCEPT ![t] = "done"]
    /\ UNCHANGED <<questions, nextId, creq, found, store0, req, resp, before,
                   deleted, pageVars>>

NextConc ==
    \E t \in Threads :
        \/ DeleteRead(t)
        \/ DeleteWrite(t)
        \/ ConcCreate(t)
        \/ ConcList(t)

InitConc == ConcInit /\ PageIdle

SpecConc == InitConc /\ [][NextConc]_vars

\* One request handled alone: the table, the next id and the response.
Alone(rows, nid, request) ==
    CASE request.op = "delete_question" ->
            LET out == delete_question(rows, request.question_id)
            IN  Outcome(out.questions, nid, out.resp)
      [] request.op = "create" ->
            CHOOSE out \in handle_questions_post(rows, nid, request.body, NoArgs) :
                TRUE
      [] request.op = "get_questions" ->
            Outcome(rows, nid, get_questions(rows, NoArgs))

\* The requests of the threads handled one after another in the given order.
RECURSIVE Serial(_, _, _, _)
Serial(order, rows, nid, resps) ==
    IF order = <<>> THEN [questions |-> rows, resps |-> resps]
    ELSE LET t == Head(order)
             out == Alone(rows, nid, creq[t])
         IN  Serial(Tail(order), out.questions, out.nextId,
                    [resps EXCEPT ![t] = out.resp])

ThreadOrders ==
    {o \in [Threads -> Threads] : \A i, j \in Threads : i # j => o[i] # o[j]}

\* C10: when concurrently handled requests have all been answered, their
\* responses and the questions table are those of the same requests handled
\* one after another in some order.
C10_Serializable ==
    (\A t \in Threads : pc[t] = "done") =>
        \E o \in ThreadOrders :
            LET s == Serial(o, store0, MaxSeed + 1, cresp)
            IN  s.questions = questions /\ s.resps = cresp

====
